---------------------------- MODULE Spec2Model ----------------------------
(***************************************************************************)
(* A model of the recommender of westford14/watchlist-data:                *)
(*   src/src/recommender/trainer.py     Trainer (load_data, fit, predict)  *)
(*   src/src/recommender/similarity.py  SimilarityMeasure (fit, infer,     *)
(*                                      save, load)                        *)
(*   src/src/pipeline/common/splitter.py  split_list                       *)
(*                                                                         *)
(* Data frames are sequences of records (one record per row, one field per *)
(* column).  Strings are TLA+ strings, so concatenation is real            *)
(* concatenation.  A missing cell is the value nan, as in pandas.          *)
(***************************************************************************)
EXTENDS Integers, Sequences, FiniteSets, TLC

VARIABLES
    movie_file,     \* the rows of the catalog CSV read by load_data
    extra_arg,      \* the supplemental frame as the caller built it (Ref), or None
    extra_data,     \* Trainer.extra_data: that same frame object, which load_data
                    \* assigns to in place
    pc,             \* "start", "constructed" (Trainer.__init__ returned), "failed"
    train_data,     \* Trainer.train_data
    texts,          \* SimilarityMeasure.texts
    embeddings,     \* SimilarityMeasure.embeddings
    faiss_index,    \* SimilarityMeasure.faiss_index
    index_to_id,    \* SimilarityMeasure.index_to_id
    call,           \* the last call made on the session and how it ended
    disk,           \* the folder save writes to and load reads from
    saved           \* the session as it was when save was last called on it, and
                    \* how that save ended

vars == <<movie_file, extra_arg, extra_data, pc, train_data, texts, embeddings,
          faiss_index, index_to_id, call, disk, saved>>

sim == <<texts, embeddings, faiss_index, index_to_id>>

store == <<disk, saved>>

-----------------------------------------------------------------------------
(* Bounds of the model.                                                    *)

MaxRows == 2        \* rows of the catalog and of the supplemental frame
MaxGenres == 3      \* genre tags of one catalog record
MaxK == 4           \* top_k of a search
MaxVectors == 3     \* vectors and ids handed to SimilarityMeasure.fit directly
MaxLen == 4         \* length of a list handed to split_list
MaxAmount == 3      \* amount handed to split_list

-----------------------------------------------------------------------------
(* Python and pandas values.                                               *)

\* An attribute or argument that may be None holds None or Ref(its value).
None == [py |-> "None"]
Ref(v) == [val |-> v]

\* A missing cell: float NaN in a numeric column, NaN/None in an object column.
nan == "nan"

Range(s) == {s[i] : i \in DOMAIN s}

Min(a, b) == IF a <= b THEN a ELSE b

\* All sequences over S of length lo..hi.
SeqsOf(S, lo, hi) == UNION {[1..n -> S] : n \in lo..hi}

\* The value of a call: what it returned, or the exception it raised.
Returned(v) == [exc |-> "none", value |-> v]
Raised(e) == [exc |-> e]

-----------------------------------------------------------------------------
(* Trainer.load_data, statement by statement.                              *)

GENRES == <<"Animation", "Comedy", "Family", "Adventure", "Fantasy", "Romance",
            "Drama", "Action", "Crime", "Thriller", "Horror", "History",
            "Science Fiction", "Mystery", "War", "Foreign", "Music",
            "Documentary", "Western">>

\* pd.to_numeric(column, errors="coerce") on one cell: the float the cell
\* parses to (written as its decimal string), nan when it does not parse or
\* is missing.
to_numeric(x) ==
    CASE x = "1" -> "1.0"
      [] x = "2" -> "2.0"
      [] x = "3" -> "3.0"
      [] x = "1.5" -> "1.5"
      [] x = "2.5" -> "2.5"
      [] OTHER -> nan

\* .astype(int) on one finite float: truncation towards zero.
astype_int(f) ==
    CASE f = "1.0" -> 1
      [] f = "1.5" -> 1
      [] f = "2.0" -> 2
      [] f = "2.5" -> 2
      [] f = "3.0" -> 3

\* cleaner(x, genres=GENRES): the loop `for y in x: if y in genres: ret.append(y)`.
RECURSIVE cleaner_loop(_, _)
cleaner_loop(x, ret) ==
    IF x = <<>> THEN ret
    ELSE cleaner_loop(Tail(x),
                      IF Head(x) \in Range(GENRES) THEN Append(ret, Head(x)) ELSE ret)

\* cleaner with ret.insert(0, y) for ret.append(y): the kept tags come out in
\* reverse order.
RECURSIVE cleaner_prepend(_, _)
cleaner_prepend(x, ret) ==
    IF x = <<>> THEN ret
    ELSE cleaner_prepend(Tail(x),
                         IF Head(x) \in Range(GENRES) THEN <<Head(x)>> \o ret ELSE ret)

cleaner_reversed(x) == cleaner_prepend(x, <<>>)

cleaner(x) == cleaner_loop(x, <<>>)

\* sep.join(x)
RECURSIVE join(_, _)
join(sep, x) ==
    IF x = <<>> THEN ""
    ELSE IF Len(x) = 1 THEN x[1]
    ELSE x[1] \o sep \o join(sep, Tail(x))

\* Series + Series (or + str) on an object column: a missing operand gives a
\* missing result.
str_add(a, b) == IF a = nan \/ b = nan THEN nan ELSE a \o b

\* movies["text"] = title + " " + overview + " " + genres.apply(" ".join)
assemble_text(title, overview, genres) ==
    str_add(str_add(str_add(str_add(title, " "), overview), " "), join(" ", genres))

\* DataFrame.dropna(): drop the rows with a missing cell.  `nullable` are the
\* columns whose dtype can hold a missing value (float64, object); an int64
\* column never does.
dropna(df, nullable) ==
    SelectSeq(df, LAMBDA r : \A c \in nullable : r[c] # nan)

\* The filter without its negation: only the colliding rows are kept.
isin_only(df, values) ==
    SelectSeq(df, LAMBDA r : r.movie_id \in values)

\* extra_data[~extra_data["movie_id"].isin(values)]
not_isin(df, values) ==
    SelectSeq(df, LAMBDA r : ~(r.movie_id \in values))

\* pd.concat with its two frames in the other order.
concat_swapped(first, second) == second \o first

\* pd.concat([extra_data, train_data]).reset_index(drop=True)
concat(first, second) == first \o second

\* The catalog half of load_data (lines 52-80): read, coerce the id, parse and
\* clean the genres, assemble the text, drop incomplete rows, cast the id.
load_catalog(csv) ==
    IF \E i \in DOMAIN csv : ~csv[i].genres.literal
    THEN Raised("ValueError")           \* literal_eval(x) raises inside apply
    ELSE
        LET movies == [i \in DOMAIN csv |->
                [movie_id |-> to_numeric(csv[i].id),
                 text |-> assemble_text(csv[i].original_title,
                                        csv[i].overview,
                                        cleaner(csv[i].genres.names))]]
            kept == dropna(movies, {"movie_id", "text"})
        IN  Returned([i \in DOMAIN kept |->
                [movie_id |-> astype_int(kept[i].movie_id),
                 text |-> kept[i].text]])

\* The supplemental half of load_data (lines 82-92): coerce, cast, drop rows
\* with a missing cell, drop the ids the catalog has, put what is left in
\* front of the catalog.  The two assignments to extra_data["movie_id"] write
\* into the caller's frame; `frame` is that frame as the call leaves it.
merge_extra(extra, train) ==
    LET coerced == [i \in DOMAIN extra |->
            [movie_id |-> to_numeric(extra[i].movie_id), text |-> extra[i].text]]
    IN  IF \E i \in DOMAIN coerced : coerced[i].movie_id = nan
        THEN [exc |-> "ValueError",     \* astype(int) of a column holding NaN
              frame |-> coerced]
        ELSE
            LET cast == [i \in DOMAIN coerced |->
                    [movie_id |-> astype_int(coerced[i].movie_id),
                     text |-> coerced[i].text]]
                kept == dropna(cast, {"text"})
                fresh == not_isin(kept, {train[i].movie_id : i \in DOMAIN train})
            IN  [exc |-> "none", value |-> concat(fresh, train), frame |-> cast]

\* load_data(extra_data): what it returns or raises, and the supplemental
\* frame as it leaves it.
load_data(csv, extra) ==
    LET catalog == load_catalog(csv)
    IN  IF catalog.exc # "none" THEN [exc |-> catalog.exc, frame |-> extra]
        ELSE IF extra = None
        THEN [exc |-> "none", value |-> dropna(catalog.value, {"text"}), frame |-> extra]
        ELSE
            LET merged == merge_extra(extra.val, catalog.value)
            IN  IF merged.exc # "none"
                THEN [exc |-> merged.exc, frame |-> Ref(merged.frame)]
                ELSE [exc |-> "none", value |-> dropna(merged.value, {"text"}),
                      frame |-> Ref(merged.frame)]

-----------------------------------------------------------------------------
(* SimilarityMeasure.__init__ and Trainer.__init__.                        *)

Trainer_init ==
    /\ pc = "start"
    /\ LET loaded == load_data(movie_file, extra_data)
       IN  /\ pc' = IF loaded.exc = "none" THEN "constructed" ELSE "failed"
           /\ train_data' = IF loaded.exc = "none" THEN loaded.value ELSE <<>>
           /\ extra_data' = loaded.frame
           /\ call' = [op |-> "Trainer", exc |-> loaded.exc]
    /\ UNCHANGED <<movie_file, extra_arg, sim, store>>


-----------------------------------------------------------------------------
(* SimilarityMeasure: embed, build_faiss_index, fit, infer.                *)

\* numpy arrays, as Python sees them: objects that cannot be hashed.
ndarray(rows) == [type |-> "ndarray", rows |-> rows]

\* One text through the sentence encoder.  The encoder is a library; what the
\* model keeps of it is that it is a total, deterministic function of the
\* text alone.
encode(t) == <<Len(t)>>

\* embed(texts): one vector per text, in order.
embed(ts) == [i \in DOMAIN ts |-> encode(ts[i])]

\* build_faiss_index(embeddings): embeddings.shape[1] raises on the empty
\* array that encoding no text gives; otherwise a flat index holding the
\* vectors in insertion order.
build_faiss_index(emb) ==
    IF emb = <<>> THEN Raised("IndexError") ELSE Returned(emb)

ntotal(index) == Len(index)

\* dict(zip(list(range(self.faiss_index.ntotal)), ids)): zip stops at the
\* shorter of the two.
make_index_to_id(n, ids) ==
    [i \in 0..(Min(n, Len(ids)) - 1) |-> ids[i + 1]]

RECURSIVE SqDist(_, _)
SqDist(a, b) ==
    IF a = <<>> THEN 0
    ELSE (Head(a) - Head(b)) * (Head(a) - Head(b)) + SqDist(Tail(a), Tail(b))

\* The stored positions 0..n-1 in some order of non-decreasing squared L2
\* distance to q; the order among equal distances is the library's choice.
Rankings(index, q) ==
    LET n == ntotal(index)
    IN  {r \in [1..n -> 0..(n - 1)] :
            /\ \A i, j \in 1..n : i # j => r[i] # r[j]
            /\ \A i \in 1..n : \A j \in 1..n :
                  i < j => SqDist(index[r[i] + 1], q) <= SqDist(index[r[j] + 1], q)}

\* IndexFlatL2.search(q, k) for one query: k labels, the nearest first, and
\* the label -1 in every slot past the number of stored vectors.
search(index, q, k) ==
    LET n == ntotal(index)
    IN  {[i \in 1..k |-> IF i <= n THEN r[i] ELSE -1] : r \in Rankings(index, q)}

\* A dict json.load built: its keys are strings.
StrKeyed(d) == "keys" \in DOMAIN d

\* A position as faiss reports it, used as a key.
int_key(i) == [type |-> "int", value |-> i]

\* self.sim_model.index_to_id[i]
getitem(d, key) ==
    IF d = None THEN Raised("TypeError")                \* None is not subscriptable
    ELSE IF key.type = "ndarray" THEN Raised("TypeError")   \* unhashable key
    ELSE IF StrKeyed(d) THEN Raised("KeyError")         \* no int equals a str key
    ELSE IF key.value \notin DOMAIN d.val THEN Raised("KeyError")
    ELSE Returned(d.val[key.value])

\* [self.sim_model.index_to_id[i] for i in ids]: the first lookup that raises
\* ends the comprehension.
RECURSIVE list_comp(_, _, _)
list_comp(d, ids, acc) ==
    IF ids = <<>> THEN Returned(acc)
    ELSE LET got == getitem(d, Head(ids))
         IN  IF got.exc # "none" THEN got
             ELSE list_comp(d, Tail(ids), Append(acc, got.value))

\* SimilarityMeasure.fit(texts, ids, embeddings): the fields are assigned one
\* after the other, so a raise in build_faiss_index leaves texts and
\* embeddings replaced and the index and the map as they were.
fit(t, ids, emb) ==
    LET e == IF emb = None THEN embed(t) ELSE emb.val
        built == build_faiss_index(e)
    IN  /\ texts' = Ref(t)
        /\ embeddings' = Ref(e)
        /\ IF built.exc = "none"
           THEN /\ faiss_index' = Ref(built.value)
                /\ index_to_id' = Ref(make_index_to_id(ntotal(built.value), ids))
           ELSE UNCHANGED <<faiss_index, index_to_id>>
        /\ call' = [op |-> "fit", exc |-> built.exc, ids |-> ids,
                    precomputed |-> emb # None]

\* Trainer.fit()
Trainer_fit ==
    /\ pc = "constructed"
    /\ fit([i \in DOMAIN train_data |-> train_data[i].text],
           [i \in DOMAIN train_data |-> train_data[i].movie_id],
           None)
    /\ UNCHANGED <<movie_file, extra_arg, extra_data, pc, train_data, store>>

\* The arguments of a direct call of SimilarityMeasure.fit.
SampleTexts == <<"Alpha movie ", "Beta movie", "Gamma film Drama">>
SampleText(i) == SampleTexts[((i - 1) % Len(SampleTexts)) + 1]
SampleVector(i) == <<(4 * i) % 7>>

FitTexts == {[i \in 1..n |-> SampleText(i)] : n \in 0..MaxVectors}
FitIds == {[i \in 1..n |-> 100 + i] : n \in 0..MaxVectors}
FitEmbeddings ==
    {None} \cup {Ref([i \in 1..n |-> SampleVector(i)]) : n \in 1..MaxVectors}

\* SimilarityMeasure.fit called directly, with or without precomputed embeddings.
Sim_fit ==
    /\ \E t \in FitTexts, ids \in FitIds, emb \in FitEmbeddings : fit(t, ids, emb)
    /\ UNCHANGED <<movie_file, extra_arg, extra_data, pc, train_data, store>>

Queries == {"Alpha movie ", "Beta movie"}

\* SimilarityMeasure.infer([q], top_k=k): returns (neighbours, embeddings).
Sim_infer ==
    /\ \E q \in Queries, k \in 1..MaxK :
         IF faiss_index = None
         THEN call' = [op |-> "infer", exc |-> "AttributeError", query |-> q, k |-> k]
         ELSE \E row \in search(faiss_index.val, encode(q), k) :
                call' = [op |-> "infer", exc |-> "none", query |-> q, k |-> k,
                         neighbours |-> row]
    /\ UNCHANGED <<movie_file, extra_arg, extra_data, pc, train_data, sim, store>>

\* Trainer.predict(movie_text, top_k): iterates over the pair infer returns.
\* There is no test of the session's state: with no index, infer embeds the
\* query and self.faiss_index.search is then an attribute lookup on None.
Trainer_predict ==
    /\ pc = "constructed"
    /\ \E q \in Queries, k \in 1..MaxK :
         IF faiss_index = None
         THEN call' = [op |-> "predict", exc |-> "AttributeError", query |-> q, k |-> k,
                       embedded |-> embed(<<q>>) # <<>>]
         ELSE \E row \in search(faiss_index.val, encode(q), k) :
                LET ids == <<ndarray(<<row>>), ndarray(embed(<<q>>))>>
                    movies == list_comp(index_to_id, ids, <<>>)
                IN  call' = [op |-> "predict", exc |-> movies.exc, query |-> q, k |-> k,
                             neighbours |-> row,
                             movies |-> IF movies.exc = "none" THEN movies.value ELSE <<>>]
    /\ UNCHANGED <<movie_file, extra_arg, extra_data, pc, train_data, sim, store>>

-----------------------------------------------------------------------------
(* SimilarityMeasure.save and load, and the three files of the folder.     *)

\* A file of the folder: not there, there with bytes its reader rejects
\* (empty, truncated, foreign), or there with what its writer wrote.
Absent == [file |-> "absent"]
Unreadable == [file |-> "unreadable"]
File(data) == [file |-> "ok", data |-> data]

\* str(i) of a position.
Digits == <<"0", "1", "2", "3", "4", "5", "6", "7", "8", "9">>
str(i) == Digits[i + 1]

\* np.save(f, self.embeddings): an array is written as it is; None becomes a
\* 0-d object array, which np.save pickles.
np_save(e) ==
    IF e = None THEN [npy |-> "object"] ELSE [npy |-> "array", rows |-> e.val]

\* open(..., "rb") and np.load(f): object arrays are refused (allow_pickle
\* is False by default).
np_load(f) ==
    IF f = Absent THEN Raised("FileNotFoundError")
    ELSE IF f = Unreadable THEN Raised("ValueError")
    ELSE IF f.data.npy = "object" THEN Raised("ValueError")
    ELSE Returned(Ref(f.data.rows))

\* json.dump(self.index_to_id, f): None is written as null; the keys of a
\* dict are written as strings, whatever they were.
json_dump(d) ==
    IF d = None THEN [json |-> "null"]
    ELSE IF StrKeyed(d) THEN [json |-> "object", val |-> d.val]
    ELSE [json |-> "object",
          val |-> [k \in {str(i) : i \in DOMAIN d.val} |->
                      d.val[CHOOSE i \in DOMAIN d.val : str(i) = k]]]

\* open(..., "r") and json.load(f): null gives None, an object gives a dict
\* keyed by strings.
json_load(f) ==
    IF f = Absent THEN Raised("FileNotFoundError")
    ELSE IF f = Unreadable THEN Raised("JSONDecodeError")
    ELSE IF f.data.json = "null" THEN Returned(None)
    ELSE Returned([val |-> f.data.val, keys |-> "str"])

\* faiss.write_index(self.faiss_index, path): how it ends and the file it
\* leaves, given the file that was there.  What it does with None is the
\* library build's choice: the wrapper refuses the argument, or the writer
\* opens the file and then refuses, or it writes a null index.
write_index(index, old) ==
    IF index # None
    THEN {[exc |-> "none", file |-> File([index |-> "flat", rows |-> index.val])]}
    ELSE {[exc |-> "TypeError", file |-> old],
          [exc |-> "RuntimeError", file |-> Unreadable],
          [exc |-> "none", file |-> File([index |-> "null"])]}

\* faiss.read_index(path)
read_index(f) ==
    IF f = Absent THEN Raised("RuntimeError")
    ELSE IF f = Unreadable THEN Raised("RuntimeError")
    ELSE IF f.data.index = "null" THEN Returned(None)
    ELSE Returned(Ref(f.data.rows))

\* SimilarityMeasure.save(folder): the folder is made, embeddings.npy and
\* index_to_id.json are written, then the index.  Nothing tests that the
\* session was fitted.
save ==
    LET written == [exists |-> TRUE,
                    embeddings |-> File(np_save(embeddings)),
                    index_to_id |-> File(json_dump(index_to_id)),
                    faiss |-> disk.faiss]
    IN  /\ \E out \in write_index(faiss_index, disk.faiss) :
             /\ disk' = [written EXCEPT !.faiss = out.file]
             /\ saved' = [exc |-> out.exc, embeddings |-> embeddings,
                          faiss_index |-> faiss_index, index_to_id |-> index_to_id]
             /\ call' = [op |-> "save", exc |-> out.exc]
        /\ UNCHANGED sim

\* SimilarityMeasure.load(folder): the fields are assigned one after the
\* other as each file is read, and nothing compares the three.
load ==
    LET e == np_load(disk.embeddings)
        m == json_load(disk.index_to_id)
        x == read_index(disk.faiss)
    IN  /\ IF ~disk.exists
           THEN /\ call' = [op |-> "load", exc |-> "ValueError"]
                /\ UNCHANGED sim
           ELSE IF e.exc # "none"
           THEN /\ call' = [op |-> "load", exc |-> e.exc]
                /\ UNCHANGED sim
           ELSE IF m.exc # "none"
           THEN /\ call' = [op |-> "load", exc |-> m.exc]
                /\ embeddings' = e.value
                /\ UNCHANGED <<texts, faiss_index, index_to_id>>
           ELSE IF x.exc # "none"
           THEN /\ call' = [op |-> "load", exc |-> x.exc]
                /\ embeddings' = e.value
                /\ index_to_id' = m.value
                /\ UNCHANGED <<texts, faiss_index>>
           ELSE /\ call' = [op |-> "load", exc |-> "none"]
                /\ embeddings' = e.value
                /\ index_to_id' = m.value
                /\ faiss_index' = x.value
                /\ UNCHANGED texts
        /\ UNCHANGED store

\* SimilarityMeasure(): a new session, none of its fields set.
Sim_new ==
    /\ texts' = None
    /\ embeddings' = None
    /\ faiss_index' = None
    /\ index_to_id' = None
    /\ call' = [op |-> "SimilarityMeasure", exc |-> "none"]
    /\ UNCHANGED <<movie_file, extra_arg, extra_data, pc, train_data, store>>

\* SimilarityMeasure.save called directly.
Sim_save ==
    /\ save
    /\ UNCHANGED <<movie_file, extra_arg, extra_data, pc, train_data>>

\* Trainer.save(output_dir)
Trainer_save ==
    /\ pc = "constructed"
    /\ save
    /\ UNCHANGED <<movie_file, extra_arg, extra_data, pc, train_data>>

\* SimilarityMeasure.load called directly.
Sim_load ==
    /\ load
    /\ UNCHANGED <<movie_file, extra_arg, extra_data, pc, train_data>>

-----------------------------------------------------------------------------
(* split_list                                                              *)

\* range(start, stop, step) as a list.
range(start, stop, step) ==
    IF step = 0 THEN Raised("ValueError")
    ELSE LET cnt == IF step > 0
                    THEN (IF stop <= start THEN 0
                          ELSE (stop - start + step - 1) \div step)
                    ELSE (IF stop >= start THEN 0
                          ELSE (start - stop - step - 1) \div (0 - step))
         IN  Returned([i \in 1..cnt |-> start + (i - 1) * step])

\* A slice that takes the element at b as well.
slice_inclusive(target, a, b) == SubSeq(target, a + 1, Min(b + 1, Len(target)))

\* target[a : b] for 0 <= a: the slice stops at the end of the list.
slice(target, a, b) == SubSeq(target, a + 1, Min(b, Len(target)))

\* [target[x : x + amount] for x in range(0, len(target), amount)]
split_list(target, amount) ==
    LET xs == range(0, Len(target), amount)
    IN  IF xs.exc # "none" THEN xs
        ELSE Returned([i \in DOMAIN xs.value |->
                          slice(target, xs.value[i], xs.value[i] + amount)])

Elements == {"a", "b"}

\* A call of split_list on a list of up to MaxLen elements.
Split ==
    /\ \E target \in SeqsOf(Elements, 0, MaxLen), amount \in 0..MaxAmount :
         LET got == split_list(target, amount)
         IN  call' = [op |-> "split_list", exc |-> got.exc, target |-> target,
                      amount |-> amount,
                      chunks |-> IF got.exc = "none" THEN got.value ELSE <<>>]
    /\ UNCHANGED <<movie_file, extra_arg, extra_data, pc, train_data, sim, store>>

-----------------------------------------------------------------------------
(* The session: a catalog and a supplemental frame, a Trainer built from   *)
(* them, then fit, infer and predict in any order.                         *)

CatalogRow(id, title, overview, names) ==
    [id |-> id, original_title |-> title, overview |-> overview,
     genres |-> [literal |-> TRUE, names |-> names]]

ExtraRow(id, text) == [movie_id |-> id, text |-> text]

CatalogA == <<CatalogRow("1", "Alpha", "movie", <<>>)>>

Catalog3 == <<CatalogRow("1", "Alpha", "movie", <<>>),
              CatalogRow("2", "Gamma", "film", <<"Drama", "Noir">>),
              CatalogRow("3", "Delta", "story", <<>>)>>

ExtraA == Ref(<<ExtraRow("1", "WRONG"), ExtraRow("2", "Beta movie")>>)

NoCall == [op |-> "none", exc |-> "none"]

\* No folder yet, and no save so far.
NoFolder == [exists |-> FALSE, embeddings |-> Absent, index_to_id |-> Absent,
             faiss |-> Absent]
NoSave == [exc |-> "never"]

\* Nothing constructed yet.
FreshSession ==
    /\ extra_data = extra_arg
    /\ pc = "start"
    /\ train_data = <<>>
    /\ texts = None
    /\ embeddings = None
    /\ faiss_index = None
    /\ index_to_id = None
    /\ call = NoCall
    /\ saved = NoSave

Fresh == FreshSession /\ disk = NoFolder

Init ==
    /\ movie_file \in {<<>>, CatalogA, Catalog3}
    /\ extra_arg \in {None, ExtraA}
    /\ Fresh

Next ==
    \/ Trainer_init
    \/ Trainer_fit
    \/ Sim_fit
    \/ Sim_infer
    \/ Trainer_predict

Spec == Init /\ [][Next]_vars

-----------------------------------------------------------------------------
(* The corpus merge on its own: every catalog and supplemental frame of up  *)
(* to MaxRows rows, and every single catalog record with up to MaxGenres    *)
(* genre tags, through Trainer.__init__.                                    *)

MergeIds == {"1", "2", "1.5", "abc"}

MergeCatalogRows ==
    {CatalogRow(id, "Alpha", ov, <<>>) : id \in MergeIds, ov \in {"movie", nan}}

MergeExtraRows ==
    {ExtraRow(id, tx) : id \in MergeIds, tx \in {"Beta movie", "", nan}}

Tags == {"Comedy", "comedy", "Science Fiction", "Noir"}

GenreCells ==
    {[literal |-> FALSE, names |-> <<>>]}
        \cup {[literal |-> TRUE, names |-> g] : g \in SeqsOf(Tags, 0, MaxGenres)}

AssembleRecords ==
    {[id |-> id, original_title |-> ti, overview |-> ov, genres |-> g] :
        id \in {"3", "2.5", nan}, ti \in {"Up", nan}, ov \in {"A house flies", nan},
        g \in GenreCells}

InitMerge ==
    /\ \/ /\ movie_file \in SeqsOf(MergeCatalogRows, 0, MaxRows)
          /\ extra_arg \in {None} \cup {Ref(x) : x \in SeqsOf(MergeExtraRows, 0, MaxRows)}
       \/ /\ movie_file \in {<<r>> : r \in AssembleRecords}
          /\ extra_arg = None
    /\ Fresh

NextMerge == Trainer_init

SpecMerge == InitMerge /\ [][NextMerge]_vars

-----------------------------------------------------------------------------
(* Persistence: a Trainer over a catalog, and a folder that is missing,    *)
(* empty, or holds artifacts of an earlier run, whole or damaged; then     *)
(* fit, save, load, predict and new sessions in any order.                 *)

StoredVectors(n) == [i \in 1..n |-> SampleVector(i)]
StoredMap(n) == [k \in {str(i) : i \in 0..(n - 1)} |-> 100 + (CHOOSE i \in 0..(n - 1) : str(i) = k)]

EmbeddingFiles ==
    {Absent, Unreadable, File(np_save(Ref(StoredVectors(MaxVectors))))}
IndexToIdFiles ==
    {Absent, Unreadable} \cup
        {File([json |-> "object", val |-> StoredMap(n)]) : n \in {MaxVectors - 1, MaxVectors}}
IndexFiles ==
    {Absent, Unreadable, File([index |-> "flat", rows |-> StoredVectors(MaxVectors)])}

Folders ==
    {NoFolder} \cup
        {[exists |-> TRUE, embeddings |-> e, index_to_id |-> m, faiss |-> x] :
            e \in EmbeddingFiles, m \in IndexToIdFiles, x \in IndexFiles}

InitPersist ==
    /\ movie_file \in {CatalogA, Catalog3}
    /\ extra_arg = None
    /\ FreshSession
    /\ disk \in Folders

NextPersist ==
    \/ Trainer_init
    \/ Trainer_fit
    \/ Trainer_predict
    \/ Trainer_save
    \/ Sim_new
    \/ Sim_save
    \/ Sim_load

SpecPersist == InitPersist /\ [][NextPersist]_vars

-----------------------------------------------------------------------------
(* split_list on its own.                                                  *)

InitSplit ==
    /\ movie_file = <<>>
    /\ extra_arg = None
    /\ Fresh

NextSplit == Split

SpecSplit == InitSplit /\ [][NextSplit]_vars

-----------------------------------------------------------------------------
(* What the claims about the merge speak of: the rows of the two inputs,   *)
(* the ids they carry and the corpus load_data returned.                   *)

\* load_data returned: train_data is the merged corpus.
Merged == pc = "constructed"

Parses(cell) == to_numeric(cell) # nan
IdOf(cell) == astype_int(to_numeric(cell))

ExtraRows == IF extra_arg = None THEN <<>> ELSE extra_arg.val

\* The ids that occur in the catalog, and in the supplemental input.
CatalogIds ==
    {IdOf(movie_file[i].id) : i \in {j \in DOMAIN movie_file : Parses(movie_file[j].id)}}
ExtraIds ==
    {IdOf(ExtraRows[i].movie_id) :
        i \in {j \in DOMAIN ExtraRows : Parses(ExtraRows[j].movie_id)}}
MergedIds == {train_data[i].movie_id : i \in DOMAIN train_data}

\* The text of a catalog record as section 4.1 words it: title, a space,
\* synopsis, a space, the tags of the vocabulary joined by spaces.
KnownTags(names) == SelectSeq(names, LAMBDA g : \E i \in DOMAIN GENRES : GENRES[i] = g)
RecordText(r) ==
    r.original_title \o " " \o r.overview \o " " \o join(" ", KnownTags(r.genres.names))

\* A catalog row that makes an item: its id parses and neither its title nor
\* its synopsis is missing.  A supplemental row that makes one: its id parses
\* and its text is not missing.
UsableCatalogRow(r) == Parses(r.id) /\ r.original_title # nan /\ r.overview # nan
UsableExtraRow(r) == Parses(r.movie_id) /\ r.text # nan

CatalogItems ==
    LET rows == SelectSeq(movie_file, UsableCatalogRow)
    IN  [i \in DOMAIN rows |-> [movie_id |-> IdOf(rows[i].id), text |-> RecordText(rows[i])]]
CatalogItemIds == {CatalogItems[i].movie_id : i \in DOMAIN CatalogItems}

SurvivingExtraItems ==
    LET rows == SelectSeq(ExtraRows,
                          LAMBDA r : UsableExtraRow(r) /\ IdOf(r.movie_id) \notin CatalogItemIds)
    IN  [i \in DOMAIN rows |-> [movie_id |-> IdOf(rows[i].movie_id), text |-> rows[i].text]]

AllGenresParse == \A i \in DOMAIN movie_file : movie_file[i].genres.literal

-----------------------------------------------------------------------------
(* C1 - Merge precedence: for every id that occurs in both the catalog and *)
(* the supplemental input, the text the merged corpus attaches to that id  *)
(* is the text of a catalog record with that id, never the supplemental's. *)
MergePrecedence ==
    Merged =>
        \A i \in DOMAIN train_data :
            LET id == train_data[i].movie_id
            IN  (id \in CatalogIds /\ id \in ExtraIds) =>
                    \E j \in DOMAIN movie_file :
                        /\ UsableCatalogRow(movie_file[j])
                        /\ IdOf(movie_file[j].id) = id
                        /\ train_data[i].text = RecordText(movie_file[j])

(* C2 - Merge uniqueness: every id of the merged corpus appears in it      *)
(* exactly once, whatever the inputs, repeated ids included.               *)
MergeUniqueness ==
    Merged =>
        \A i, j \in DOMAIN train_data :
            train_data[i].movie_id = train_data[j].movie_id => i = j

(* C3 - Merge coverage, as claimed: every id present in the catalog is in  *)
(* the merged corpus, and so is every id present only in the supplemental  *)
(* input.                                                                  *)
MergeCoverage ==
    Merged =>
        /\ CatalogIds \subseteq MergedIds
        /\ (ExtraIds \ CatalogIds) \subseteq MergedIds

(* C3, amended: in every corpus load_data returns, the id of every catalog *)
(* row that has a parseable id, a title and a synopsis is present, and so  *)
(* is the id of every supplemental row that has a text and whose id is no  *)
(* id of the catalog.                                                      *)
MergeCoverageOfUsableRows ==
    Merged =>
        /\ CatalogItemIds \subseteq MergedIds
        /\ \A i \in DOMAIN ExtraRows :
              (UsableExtraRow(ExtraRows[i])
                    /\ IdOf(ExtraRows[i].movie_id) \notin CatalogIds)
                => IdOf(ExtraRows[i].movie_id) \in MergedIds

\* A corpus built from a catalog with a row that is dropped for its missing
\* synopsis and a row that is kept, and from a supplemental frame that brings
\* an id of its own.
MergeCoverageWitness ==
    /\ Merged
    /\ \E i \in DOMAIN movie_file : ~UsableCatalogRow(movie_file[i])
    /\ CatalogItemIds # {}
    /\ \E i \in DOMAIN ExtraRows :
          /\ UsableExtraRow(ExtraRows[i])
          /\ IdOf(ExtraRows[i].movie_id) \notin CatalogIds
          /\ IdOf(ExtraRows[i].movie_id) \in MergedIds

(* C4 - Merge order: the merged corpus is the surviving supplemental items *)
(* in their original relative order, followed by the catalog items in      *)
(* their original relative order.                                          *)
MergeOrder ==
    Merged => train_data = SurvivingExtraItems \o CatalogItems

\* Scenario A: a catalog holding id 1, a supplemental frame holding ids 1
\* and 2 in that order; the corpus is id 2 (supplemental) then id 1 (catalog).
MergeOrderWitness ==
    /\ Merged
    /\ Len(movie_file) = 1 /\ movie_file[1].id = "1"
    /\ Len(ExtraRows) = 2 /\ ExtraRows[1].movie_id = "1" /\ ExtraRows[2].movie_id = "2"
    /\ train_data = <<[movie_id |-> 2, text |-> "Beta movie"],
                      [movie_id |-> 1, text |-> "Alpha movie "]>>

(* C5 - A row whose id cannot be parsed, in the catalog or in the          *)
(* supplemental input, is dropped silently: the merge completes and does   *)
(* not raise.                                                              *)
UnparsableIdIsDropped ==
    (/\ pc # "start"
     /\ AllGenresParse
     /\ \/ \E i \in DOMAIN movie_file : ~Parses(movie_file[i].id)
        \/ \E i \in DOMAIN ExtraRows : ~Parses(ExtraRows[i].movie_id))
        => /\ Merged
           /\ Len(train_data) <= Len(movie_file) + Len(ExtraRows) - 1

(* C6 - Text assembly: the text of every catalog record in the corpus is   *)
(* its title, one space, its synopsis, one space, then its genre tags      *)
(* joined by spaces, a tag being kept only if it equals an entry of the    *)
(* vocabulary, the kept tags in their original order; and an unknown tag   *)
(* never makes the build fail.                                             *)
TextAssembly ==
    /\ Merged =>
          LET rows == SelectSeq(movie_file, UsableCatalogRow)
              first == Len(train_data) - Len(rows)
          IN  /\ first >= 0
              /\ \A i \in DOMAIN rows : train_data[first + i].text = RecordText(rows[i])
    /\ (pc = "failed" /\ extra_arg = None) => ~AllGenresParse

\* A record with a known tag, an unknown one and a second known one, whose
\* text keeps the two known tags in their order.
TextAssemblyWitness ==
    /\ Merged
    /\ Len(movie_file) = 1
    /\ movie_file[1].genres.names = <<"Science Fiction", "Noir", "Comedy">>
    /\ Len(train_data) = 1
    /\ train_data[1].text = "Up A house flies Science Fiction Comedy"

(* C7 - Every item of the merged corpus has a non-empty text: a row whose  *)
(* text is empty or missing is not in the corpus.                          *)
CorpusTextNonEmpty ==
    Merged => \A i \in DOMAIN train_data :
                 train_data[i].text # nan /\ train_data[i].text # ""

-----------------------------------------------------------------------------
(* What the claims about the session speak of.                             *)

\* fit or load has completed: the three fields are set.
Fitted == embeddings # None /\ faiss_index # None /\ index_to_id # None

\* A Fitted session over n >= 1 items: n texts, n vectors, n stored vectors
\* and a map over the positions 0..n-1.
FittedOverItems ==
    /\ Fitted
    /\ texts # None
    /\ ntotal(faiss_index.val) >= 1
    /\ Len(texts.val) = ntotal(faiss_index.val)
    /\ Len(embeddings.val) = ntotal(faiss_index.val)
    /\ DOMAIN index_to_id.val = 0..(ntotal(faiss_index.val) - 1)

\* The squared distance from the query of the last call to stored position p.
QueryDist(p) == SqDist(faiss_index.val[p + 1], encode(call.query))

(* C8 - After a successful fit over n vectors and an id sequence, the      *)
(* Index-to-Id Map has exactly n entries, as many as the index stores, and *)
(* map[i] = ids[i] for every position i in 0..n-1, with or without         *)
(* precomputed embeddings.                                                 *)
IndexToIdMatchesIndex ==
    (call.op = "fit" /\ call.exc = "none") =>
        LET n == ntotal(faiss_index.val)
        IN  /\ DOMAIN index_to_id.val = 0..(n - 1)
            /\ \A i \in 0..(n - 1) : index_to_id.val[i] = call.ids[i + 1]

(* C9 - In a Fitted session over n items predict(queryText, k) returns     *)
(* external ids, each the Index-to-Id Map's value at a position the search *)
(* returned, in ascending-distance order, at most min(k, n) of them, the   *)
(* id of an item whose text equals queryText first.                        *)
PredictReturnsNearestIds ==
    (call.op = "predict" /\ FittedOverItems) =>
        LET n == ntotal(faiss_index.val)
            out == call.movies
        IN  /\ call.exc = "none"
            /\ Len(out) <= Min(call.k, n)
            /\ \A i \in DOMAIN out :
                  /\ call.neighbours[i] \in DOMAIN index_to_id.val
                  /\ out[i] = index_to_id.val[call.neighbours[i]]
            /\ \A i, j \in DOMAIN out :
                  i < j => QueryDist(call.neighbours[i]) <= QueryDist(call.neighbours[j])
            /\ (\E p \in DOMAIN texts.val : texts.val[p] = call.query) =>
                  /\ out # <<>>
                  /\ \E p \in DOMAIN texts.val :
                        /\ texts.val[p] = call.query
                        /\ (p - 1) \in DOMAIN index_to_id.val
                        /\ out[1] = index_to_id.val[p - 1]

(* C10 - Search ordering: a search for k neighbours over an index of n     *)
(* stored vectors returns exactly min(k, n) positions, each in 0..n-1, in  *)
(* order of non-decreasing distance.                                       *)
SearchOrdering ==
    (call.op = "infer" /\ call.exc = "none") =>
        LET n == ntotal(faiss_index.val)
            row == call.neighbours
        IN  /\ Len(row) = Min(call.k, n)
            /\ \A i \in DOMAIN row : row[i] \in 0..(n - 1)
            /\ \A i, j \in DOMAIN row : i < j => QueryDist(row[i]) <= QueryDist(row[j])

-----------------------------------------------------------------------------
(* What the claims about save, load and the lifecycle speak of.            *)

\* None of the three fields is set: neither fit nor load has got anywhere
\* on this session.
Unfitted == embeddings = None /\ faiss_index = None /\ index_to_id = None

\* A session as SimilarityMeasure() leaves it.
NewSession == texts = None /\ Unfitted

\* The last save was called on a Fitted session and returned.
SavedFitted ==
    /\ saved.exc = "none"
    /\ saved.embeddings # None
    /\ saved.faiss_index # None
    /\ saved.index_to_id # None

\* The session holds what the saved session held: the same embeddings, the
\* same map, the same id (or the same failure) for every stored position,
\* and the same search results for every query and k.
SameAsSaved ==
    /\ Fitted
    /\ embeddings = saved.embeddings
    /\ index_to_id = saved.index_to_id
    /\ \A i \in 0..(ntotal(saved.faiss_index.val) - 1) :
          getitem(index_to_id, int_key(i)) = getitem(saved.index_to_id, int_key(i))
    /\ \A q \in Queries, k \in 1..MaxK :
          search(faiss_index.val, encode(q), k)
              = search(saved.faiss_index.val, encode(q), k)

(* C11 - Round trip: save of a Fitted session followed by load into a      *)
(* fresh session gives the same embeddings and an identical Index-to-Id    *)
(* Map (same positions as keys, same ids as values), so that resolving any *)
(* position 0..n-1 and searching for a fixed query give the same result in *)
(* the loaded session as in the original.                                  *)
SaveLoadRoundTrip ==
    [][(NewSession /\ SavedFitted /\ call'.op = "load")
          => (call'.exc = "none" /\ SameAsSaved')]_vars

\* The folder holds three readable artifacts.
ThreeArtifacts ==
    /\ disk.exists
    /\ disk.embeddings.file = "ok" /\ disk.embeddings.data.npy = "array"
    /\ disk.index_to_id.file = "ok" /\ disk.index_to_id.data.json = "object"
    /\ disk.faiss.file = "ok" /\ disk.faiss.data.index = "flat"

\* The item counts of the three artifacts.
EmbeddingRows == Len(disk.embeddings.data.rows)
MapEntries == Cardinality(DOMAIN disk.index_to_id.data.val)
IndexVectors == Len(disk.faiss.data.rows)

CountsDiffer ==
    ThreeArtifacts /\ ~(EmbeddingRows = MapEntries /\ MapEntries = IndexVectors)

(* C12 - load checks that the item count agrees across the embeddings      *)
(* file, the index_to_id file and the index file: loading a folder whose   *)
(* counts differ fails, and the session remains Unfitted.                  *)
LoadChecksCounts ==
    [][(Unfitted /\ CountsDiffer /\ call'.op = "load")
          => (call'.exc # "none" /\ Unfitted')]_vars

(* C13 - A failed load never partially adopts state: load on a missing     *)
(* folder fails, and after any load that fails (missing folder, or one of  *)
(* the three files missing or unreadable) the embeddings, the index and    *)
(* the id-map are what they were before the call.                          *)
FailedLoadAdoptsNothing ==
    [][call'.op = "load"
          => /\ ~disk.exists => call'.exc # "none"
             /\ call'.exc # "none"
                   => UNCHANGED <<embeddings, faiss_index, index_to_id>>]_vars

(* C14 - fit is all-or-nothing: a successful fit sets the embeddings, the  *)
(* index and the id-map together, over the same vectors, and a fit that    *)
(* fails at any step leaves all three as they were before the call.        *)
FitIsAllOrNothing ==
    [][call'.op = "fit"
          => IF call'.exc = "none"
             THEN Fitted' /\ faiss_index'.val = embeddings'.val
             ELSE UNCHANGED <<embeddings, faiss_index, index_to_id>>]_vars

(* C15 - predict on a session on which neither fit nor load has completed  *)
(* fails immediately, on a test of the session's state made before the     *)
(* query is embedded or searched for, and returns no ids.                  *)
PredictBeforeFitIsRejected ==
    (call.op = "predict" /\ Unfitted) => (call.exc # "none" /\ ~call.embedded)

(* C16 - save on an Unfitted session raises before any artifact file       *)
(* (embeddings, index_to_id, index) is created or written in the folder.   *)
SaveBeforeFitWritesNothing ==
    [][(Unfitted /\ call'.op = "save")
          => (call'.exc # "none" /\ disk' = disk)]_vars

-----------------------------------------------------------------------------
(* What the claim about split_list speaks of.                              *)

RECURSIVE Flatten(_)
Flatten(chunks) ==
    IF chunks = <<>> THEN <<>> ELSE Head(chunks) \o Flatten(Tail(chunks))

(* C17 - split_list(target, amount) with amount >= 1 partitions the list   *)
(* in order: the chunks concatenated give target, every chunk is non-empty *)
(* and no longer than amount, every chunk but the last has exactly amount  *)
(* elements, and an empty target gives no chunks.                          *)
SplitListPartitions ==
    (call.op = "split_list" /\ call.amount >= 1) =>
        LET chunks == call.chunks
        IN  /\ call.exc = "none"
            /\ Flatten(chunks) = call.target
            /\ \A i \in DOMAIN chunks :
                  /\ Len(chunks[i]) >= 1
                  /\ Len(chunks[i]) <= call.amount
                  /\ i < Len(chunks) => Len(chunks[i]) = call.amount
            /\ call.target = <<>> => chunks = <<>>

\* A list of MaxLen elements split by an amount that does not divide its
\* length: several chunks, the last one short.
SplitListWitness ==
    /\ call.op = "split_list"
    /\ call.amount >= 2
    /\ Len(call.target) = MaxLen
    /\ Len(call.chunks) >= 2
    /\ Len(call.chunks[Len(call.chunks)]) < call.amount

=============================================================================
